---- MODULE Spec2Model ----
(***************************************************************************)
(* Model of the crawl engine of zaiscrape.py: class EmailScraper           *)
(* (__init__, _is_valid_url, _find_emails_on_page, _crawl_page,            *)
(* start_scraping, stop_scraping) and the seed normalisation of            *)
(* EmailScraperUI.start_extraction.                                        *)
(*                                                                         *)
(* One worker thread runs start_scraping; a second thread may call         *)
(* stop_scraping at any moment.  The remote web is the environment: the    *)
(* outcome of every requests.get and the content of every page are chosen  *)
(* when the fetch completes.                                               *)
(***************************************************************************)
EXTENDS Integers, Sequences, FiniteSets, TLC

\* ------------------------------------------------------------------ bounds
\* Largest number of items (word tokens of the text plus <a href> elements)
\* on one page of the small site.
MaxItems == 2

\* ------------------------------------------------------- program constants
\* self.max_pages = 50
max_pages == 50

\* ------------------------------------------------------------------- URLs
\* A parsed URL, as urlparse sees it: scheme, netloc and the path segments.
Url(s, n, p) == [scheme |-> s, netloc |-> n, path |-> p]

NoUrl == Url("", "", <<>>)

\* What the user typed into the domain entry, as start_extraction reads
\* it: the text before a leading "://" (or "" when there is none), then
\* the netloc and the path.
SeedInputs ==
    { [prefix |-> "",     netloc |-> "example.com", path |-> <<>>],
      [prefix |-> "http", netloc |-> "example.com", path |-> <<>>],
      [prefix |-> "HTTP", netloc |-> "example.com", path |-> <<>>] }

\* start_extraction: domain.startswith(('http://', 'https://')), a
\* comparison of characters: "HTTP://" is not "http://".
HasHttpPrefix(input) == input.prefix \in {"http", "https"}

\* The scheme urlparse reports for a text "X://...": X in lower case.
ParsedScheme(prefix) ==
    CASE prefix = "HTTP"  -> "http"
      [] prefix = "HTTPS" -> "https"
      [] OTHER            -> prefix

\* urlparse of the text as typed.
ParseEntry(input) ==
    Url(ParsedScheme(input.prefix), input.netloc, input.path)

\* urlparse of "https://" followed by a text "X://netloc/path": the
\* netloc is "X:" and the rest, "//netloc/path", is path.  The two leading
\* segments of that path (the empty one and the typed netloc) are written
\* 0, which names no page of the sites.
ParsePrefixed(input) ==
    IF input.prefix = ""
    THEN Url("https", input.netloc, input.path)
    ELSE Url("https", input.prefix \o ":", <<0, 0>> \o input.path)

\* start_extraction: base_url = f"https://{domain}" unless the text
\* already starts with http:// or https://; given as urlparse reads it.
NormalizeSeed(input) ==
    IF HasHttpPrefix(input) THEN ParseEntry(input) ELSE ParsePrefixed(input)

\* ------------------------------------------------------------------ hrefs
\* The href attribute of an <a> element, by its form:
\*   "abs"  scheme://netloc/path    (the URL is in .url)
\*   "root" /seg/seg                (the path is in .url.path)
\*   "rel"  seg                     (the segment is .url.path[1])
\*   "bad"  text urlsplit cannot parse, such as "http://[bad"
HrefAbs(u)  == [kind |-> "abs",  url |-> u]
HrefRoot(p) == [kind |-> "root", url |-> Url("", "", p)]
HrefRel(s)  == [kind |-> "rel",  url |-> Url("", "", <<s>>)]
HrefBad     == [kind |-> "bad",  url |-> NoUrl]

\* urlsplit raises ValueError ("Invalid IPv6 URL") on such a text.
Unparsable(href) == href.kind = "bad"

DropLast(p) == IF p = <<>> THEN <<>> ELSE SubSeq(p, 1, Len(p) - 1)

\* urllib.parse.urljoin(base, href) for a parsable href.
urljoin(base, href) ==
    CASE href.kind = "abs"  -> href.url
      [] href.kind = "root" -> Url(base.scheme, base.netloc, href.url.path)
      [] href.kind = "rel"  -> Url(base.scheme, base.netloc,
                                   DropLast(base.path) \o href.url.path)
      [] OTHER              -> NoUrl

\* ---------------------------------------------------------------- the web
\* The two kinds of remote site the runs are checked against:
\*   "site"     a small site whose pages carry any text and any links
\*              drawn from SiteTokens and SiteHrefs;
\*   "endless"  a site where page n links to a page n+1 that did not
\*              exist before: its frontier regenerates for ever.
Webs == {"site", "endless"}

SiteTokens == {"a@b.com", "A@B.COM", "a@b"}

SiteHrefs ==
    { HrefRel(1),
      HrefRoot(<<2, 1>>),
      HrefAbs(Url("https", "other.com", <<1>>)),
      HrefAbs(Url("ftp", "example.com", <<1>>)),
      HrefBad }

SeqsUpTo(S, n) == UNION { [1..k -> S] : k \in 0..n }

PageIndex(url) == IF url.path = <<>> THEN 0 ELSE url.path[1]

\* The documents of the small site: the word tokens of soup.get_text()
\* and the href values of soup.find_all('a', href=True), MaxItems items
\* at most.
SitePages ==
    UNION { { [text |-> t, hrefs |-> h] :
                 t \in [1..k -> SiteTokens],
                 h \in SeqsUpTo(SiteHrefs, MaxItems - k) } :
              k \in 0..MaxItems }

\* The one host that answers requests.
SiteHost == "example.com"

\* The documents a successful GET of url may return; none when the URL
\* names another host: requests.get then raises a RequestException.
Pages(w, url) ==
    IF url.netloc # SiteHost THEN {}
    ELSE IF w = "endless"
    THEN { [text |-> <<>>, hrefs |-> <<HrefRoot(<<PageIndex(url) + 1>>)>>] }
    ELSE SitePages

\* No document: _crawl_page is not running, or its GET has not succeeded.
NoPage == [text |-> <<>>, hrefs |-> <<>>]

\* requests.exceptions.RequestException raised by requests.get (connection
\* failure, timeout=5 expired) or by raise_for_status (non-2xx status).
RequestErrors == {"ConnectionError", "Timeout", "HTTPError"}

\* ------------------------------------------------------------ status lines
StatusVisiting(url)     == [kind |-> "visiting",   url |-> url,   text |-> ""]
StatusFound(email)      == [kind |-> "found",      url |-> NoUrl, text |-> email]
\* Mutant of StatusError: the line carries the error text only.
StatusErrorNoUrl(url, e) == [kind |-> "error",      url |-> NoUrl, text |-> e]
StatusError(url, e)     == [kind |-> "error",      url |-> url,   text |-> e]
StatusUnexpected(e)     == [kind |-> "unexpected", url |-> NoUrl, text |-> e]
StatusFinished          == [kind |-> "finished",   url |-> NoUrl, text |-> ""]

\* ------------------------------------------------------------------ state
VARIABLES
    web,            \* the remote site of this run
    entry,          \* the text of the domain entry start_extraction read
    base_url,       \* self.base_url
    domain,         \* self.domain
    emails_found,   \* self.emails_found
    visited_urls,   \* self.visited_urls
    urls_to_visit,  \* self.urls_to_visit
    is_scraping,    \* self.is_scraping
    pages_crawled,  \* local of start_scraping
    current_url,    \* local of start_scraping
    page,           \* the document _crawl_page is working on (soup)
    pc,             \* position of the worker thread
    statuses,       \* every argument status_callback was called with, in order
    results,        \* every argument result_callback was called with, in order
    fetched,        \* every requests.get issued: <<url, iteration>>, in order
    iter,           \* loop bodies entered so far
    cancelIter,     \* value of iter at the first stop_scraping call, or -1
    sleeps,         \* time.sleep(1) calls returned so far
    admitted        \* every URL ever put into self.urls_to_visit

vars == <<web, entry, base_url, domain, emails_found, visited_urls,
          urls_to_visit, is_scraping, pages_crawled, current_url, page, pc,
          statuses, results, fetched, iter, cancelIter, sleeps, admitted>>

engine == <<web, entry, base_url, domain, emails_found, visited_urls,
            urls_to_visit, pages_crawled, current_url, page, pc, statuses,
            results, fetched, iter, sleeps, admitted>>

\* run_scraper: EmailScraper(base_url, ...) as __init__ leaves it.
Init ==
    /\ web \in Webs
    /\ entry \in SeedInputs
    /\ base_url = NormalizeSeed(entry)
    /\ domain = base_url.netloc
    /\ emails_found = {}
    /\ visited_urls = {}
    /\ urls_to_visit = {base_url}
    /\ is_scraping = TRUE
    /\ pages_crawled = 0
    /\ current_url = NoUrl
    /\ page = NoPage
    /\ pc = "new"
    /\ statuses = <<>>
    /\ results = <<>>
    /\ fetched = <<>>
    /\ iter = 0
    /\ cancelIter = -1
    /\ sleeps = 0
    /\ admitted = {base_url}

\* ----------------------------------------------------- EmailScraper helpers
\* Mutant of is_valid_url: the netloc comparison is left out.
is_valid_urlAnyHost(url, dom, visited) ==
    /\ url.scheme \in {"http", "https"}
    /\ url \notin visited

\* Mutant of is_valid_url: the visited test is left out.
is_valid_urlRevisits(url, dom, visited) ==
    /\ url.netloc = dom
    /\ url.scheme \in {"http", "https"}

\* _is_valid_url: same netloc as the seed, http or https, not yet visited.
\* (urlparse cannot raise here: the url is the output of urljoin.)
is_valid_url(url, dom, visited) ==
    /\ url.netloc = dom
    /\ url.scheme \in {"http", "https"}
    /\ url \notin visited

\* The email regex on one word token: local part, "@", domain, ".", and a
\* top-level segment of two or more letters.
MatchesEmailRegex(token) == token \in {"a@b.com", "A@B.COM"}

\* _find_emails_on_page: re.findall over the page text, in text order,
\* repeats included.
find_emails_on_page(text) == SelectSeq(text, MatchesEmailRegex)

\* Mutant of IsNewEmail: every match is treated as new.
IsNewEmailAlways(email, found) == TRUE

\* if email not in self.emails_found
IsNewEmail(email, found) == email \notin found

\* Mutant of AddEmail: the set is rebound to the new address alone.
AddEmailReplaces(found, email) == {email}

\* self.emails_found.add(email)
AddEmail(found, email) == found \cup {email}

\* _crawl_page, the loop over new_emails: returns the grown set and the
\* status lines emitted.
RECURSIVE EmailLoop(_, _, _)
EmailLoop(matches, found, lines) ==
    IF matches = <<>> THEN [emails |-> found, lines |-> lines]
    ELSE IF IsNewEmail(Head(matches), found)
         THEN EmailLoop(Tail(matches), AddEmail(found, Head(matches)),
                        Append(lines, StatusFound(Head(matches))))
         ELSE EmailLoop(Tail(matches), found, lines)

\* Mutant of Admit: the set is updated with ^= instead of add.
AdmitToggles(frontier, url) == (frontier \ {url}) \cup ({url} \ frontier)

\* self.urls_to_visit.add(absolute_url)
Admit(frontier, url) == frontier \cup {url}

\* The base every href of a page is joined with: self.base_url.
JoinBase(seed, page_url) == seed

\* _crawl_page, the loop over soup.find_all('a', href=True): returns the
\* grown frontier, and whether urljoin raised ValueError, which leaves the
\* loop at that link.
RECURSIVE LinkLoop(_, _, _, _, _)
LinkLoop(hrefs, frontier, visited, base, dom) ==
    IF hrefs = <<>> THEN [frontier |-> frontier, raised |-> FALSE]
    ELSE IF Unparsable(Head(hrefs))
         THEN [frontier |-> frontier, raised |-> TRUE]
         ELSE LET absolute_url == urljoin(base, Head(hrefs))
              IN  LinkLoop(Tail(hrefs),
                           IF is_valid_url(absolute_url, dom, visited)
                           THEN Admit(frontier, absolute_url)
                           ELSE frontier,
                           visited, base, dom)

\* Mutant of LoopCond: the stop flag is not read.
LoopCondIgnoresStop(frontier, pages, running) ==
    /\ frontier # {}
    /\ pages < max_pages

\* Mutant of LoopCond: the budget test written with <=.
LoopCondOffByOne(frontier, pages, running) ==
    /\ frontier # {}
    /\ pages <= max_pages
    /\ running

\* Mutant of LoopCond: the loop stops with one URL left in the frontier.
LoopCondLeavesLast(frontier, pages, running) ==
    /\ Cardinality(frontier) > 1
    /\ pages < max_pages
    /\ running

\* while self.urls_to_visit and pages_crawled < self.max_pages
\*       and self.is_scraping
LoopCond(frontier, pages, running) ==
    /\ frontier # {}
    /\ pages < max_pages
    /\ running

\* self.urls_to_visit.pop() removes the element it returns.
PopRest(frontier, url) == frontier \ {url}

\* Mutant of MarkVisited: the URL is not recorded.
MarkVisitedForgets(visited, url) == visited

\* self.visited_urls.add(current_url)
MarkVisited(visited, url) == visited \cup {url}

RECURSIVE Orderings(_)
Orderings(S) ==
    IF S = {} THEN {<<>>}
    ELSE UNION { { <<x>> \o rest : rest \in Orderings(S \ {x}) } : x \in S }

\* Mutant of ResultLists: the callback is handed a fresh, empty list.
ResultListsEmpty(found) == {<<>>}

\* list(self.emails_found): every element once, in the set's own order.
ResultLists(found) == Orderings(found)

\* ---------------------------------------------------------- worker thread
\* Mutant of Start: start_scraping raises the running flag again.
StartResetsFlag ==
    /\ pc = "new"
    /\ pages_crawled' = 0
    /\ is_scraping' = TRUE
    /\ pc' = "loop"
    /\ UNCHANGED <<web, entry, sleeps, admitted, page, base_url, domain,
                   emails_found, visited_urls, urls_to_visit, current_url,
                   statuses, results, fetched, iter, cancelIter>>

\* run_scraper calls scraper.start_scraping(): pages_crawled = 0.
Start ==
    /\ pc = "new"
    /\ pages_crawled' = 0
    /\ pc' = "loop"
    /\ UNCHANGED <<web, entry, sleeps, admitted, page, base_url, domain,
                   emails_found, visited_urls, urls_to_visit, is_scraping,
                   current_url, statuses, results, fetched, iter, cancelIter>>

\* One evaluation of the while condition.
LoopTest ==
    /\ pc = "loop"
    /\ IF LoopCond(urls_to_visit, pages_crawled, is_scraping)
       THEN pc' = "body" /\ iter' = iter + 1
       ELSE pc' = "exit" /\ iter' = iter
    /\ UNCHANGED <<web, entry, sleeps, admitted, page, base_url, domain,
                   emails_found, visited_urls, urls_to_visit, is_scraping,
                   pages_crawled, current_url, statuses, results, fetched,
                   cancelIter>>

\* current_url = self.urls_to_visit.pop(); the visited test; on a new URL
\* self.visited_urls.add(current_url).
PopUrl ==
    /\ pc = "body"
    /\ \E url \in urls_to_visit :
          /\ current_url' = url
          /\ urls_to_visit' = PopRest(urls_to_visit, url)
          /\ IF url \notin visited_urls
             THEN visited_urls' = MarkVisited(visited_urls, url) /\ pc' = "crawl"
             ELSE visited_urls' = visited_urls /\ pc' = "loop"
    /\ UNCHANGED <<web, entry, sleeps, admitted, page, base_url, domain,
                   emails_found, is_scraping, pages_crawled, statuses,
                   results, fetched, iter, cancelIter>>

\* _crawl_page: status "Visiting: {url}", then requests.get is issued.
BeginCrawl ==
    /\ pc = "crawl"
    /\ statuses' = Append(statuses, StatusVisiting(current_url))
    /\ fetched' = Append(fetched, <<current_url, iter>>)
    /\ pc' = "fetch"
    /\ UNCHANGED <<web, entry, sleeps, admitted, page, base_url, domain,
                   emails_found, visited_urls, urls_to_visit, is_scraping,
                   pages_crawled, current_url, results, iter, cancelIter>>

\* Mutant of AfterPageError: the handler leaves the while loop.
AfterPageErrorBreaks == "exit"

\* Mutant of AfterPageError: the exception is not handled and ends the
\* worker thread.
AfterPageErrorDies == "dead"

\* Mutant of AfterPageError: the handler goes straight back to the loop
\* condition.
AfterPageErrorSkipsDelay == "loop"

\* Where the worker goes on after an except clause of _crawl_page: the
\* exception is handled, _crawl_page returns, pages_crawled += 1 follows.
AfterPageError == "count"

\* requests.get or raise_for_status raises RequestException:
\* status "Error visiting {url}: {e}".
FetchFail ==
    /\ pc = "fetch"
    /\ \E e \in RequestErrors :
          statuses' = Append(statuses, StatusError(current_url, e))
    /\ pc' = AfterPageError
    /\ UNCHANGED <<web, entry, sleeps, admitted, page, base_url, domain,
                   emails_found, visited_urls, urls_to_visit, is_scraping,
                   pages_crawled, current_url, results, fetched, iter,
                   cancelIter>>

\* The GET succeeds: the email loop, then the link loop; a ValueError out
\* of urljoin is caught by "except Exception":
\* status "An unexpected error occurred: {e}".
FetchOk ==
    /\ pc = "fetch"
    /\ page' \in Pages(web, current_url)
    /\ LET mails == EmailLoop(find_emails_on_page(page'.text),
                              emails_found, <<>>)
           links == LinkLoop(page'.hrefs, urls_to_visit, visited_urls,
                             JoinBase(base_url, current_url), domain)
       IN  /\ emails_found' = mails.emails
           /\ urls_to_visit' = links.frontier
           /\ admitted' = admitted \cup links.frontier
           /\ statuses' = statuses \o mails.lines \o
                             (IF links.raised
                              THEN <<StatusUnexpected("ValueError")>>
                              ELSE <<>>)
           /\ pc' = IF links.raised THEN AfterPageError ELSE "count"
    /\ UNCHANGED <<web, entry, sleeps, base_url, domain, visited_urls,
                   is_scraping, pages_crawled, current_url, results, fetched,
                   iter, cancelIter>>

\* pages_crawled += 1
Count ==
    /\ pc = "count"
    /\ pages_crawled' = pages_crawled + 1
    /\ page' = NoPage
    /\ pc' = "sleep"
    /\ UNCHANGED <<web, entry, sleeps, admitted, base_url, domain,
                   emails_found, visited_urls, urls_to_visit, is_scraping,
                   current_url, statuses, results, fetched, iter, cancelIter>>

\* time.sleep(1)
Sleep ==
    /\ pc = "sleep"
    /\ sleeps' = sleeps + 1
    /\ pc' = "loop"
    /\ UNCHANGED <<web, entry, admitted, page, base_url, domain, emails_found,
                   visited_urls, urls_to_visit, is_scraping, pages_crawled,
                   current_url, statuses, results, fetched, iter, cancelIter>>

\* Mutant of Exit: the flag is left as it is.
ExitKeepsFlag ==
    /\ pc = "exit"
    /\ pc' = "finish"
    /\ UNCHANGED <<web, entry, sleeps, admitted, page, base_url, domain,
                   emails_found, visited_urls, urls_to_visit, is_scraping,
                   pages_crawled, current_url, statuses, results, fetched,
                   iter, cancelIter>>

\* After the loop: self.is_scraping = False
Exit ==
    /\ pc = "exit"
    /\ is_scraping' = FALSE
    /\ pc' = "finish"
    /\ UNCHANGED <<web, entry, sleeps, admitted, page, base_url, domain,
                   emails_found, visited_urls, urls_to_visit, pages_crawled,
                   current_url, statuses, results, fetched, iter, cancelIter>>

\* self.status_callback("Scraping finished.")
Finish ==
    /\ pc = "finish"
    /\ statuses' = Append(statuses, StatusFinished)
    /\ pc' = "result"
    /\ UNCHANGED <<web, entry, sleeps, admitted, page, base_url, domain,
                   emails_found, visited_urls, urls_to_visit, is_scraping,
                   pages_crawled, current_url, results, fetched, iter,
                   cancelIter>>

\* self.result_callback(list(self.emails_found))
Result ==
    /\ pc = "result"
    /\ \E l \in ResultLists(emails_found) : results' = Append(results, l)
    /\ pc' = "done"
    /\ UNCHANGED <<web, entry, sleeps, admitted, page, base_url, domain,
                   emails_found, visited_urls, urls_to_visit, is_scraping,
                   pages_crawled, current_url, statuses, fetched, iter,
                   cancelIter>>

Worker ==
    \/ Start
    \/ LoopTest
    \/ PopUrl
    \/ BeginCrawl
    \/ FetchFail
    \/ FetchOk
    \/ Count
    \/ Sleep
    \/ Exit
    \/ Finish
    \/ Result

\* ------------------------------------------------------------ other thread
\* Mutant of Cancel: the flag is flipped.
CancelToggles ==
    /\ is_scraping' = ~is_scraping
    /\ cancelIter' = IF cancelIter = -1 THEN iter ELSE cancelIter
    /\ UNCHANGED engine

\* stop_scraping, called from another thread: self.is_scraping = False
Cancel ==
    /\ is_scraping' = FALSE
    /\ cancelIter' = IF cancelIter = -1 THEN iter ELSE cancelIter
    /\ UNCHANGED engine

Next == Worker \/ Cancel

Spec == Init /\ [][Next]_vars

\* The worker thread is scheduled as long as it has a step to take; the
\* thread that cancels is under no obligation to act.
LiveSpec == Spec /\ WF_vars(Worker)

\* ================================================================ claims
LoopExited == pc \in {"exit", "finish", "result", "done"}

CancelRequested == cancelIter # -1

Range(seq) == { seq[i] : i \in 1..Len(seq) }

FetchedUrls == { fetched[i][1] : i \in 1..Len(fetched) }

StatusKinds == { statuses[i].kind : i \in 1..Len(statuses) }

\* C1: the result callback is invoked exactly once per run, only after the
\* crawl loop has exited, and its argument holds exactly the addresses of
\* emails_found (each once), however the loop ended.
C1_ResultOnceWithEmailSet ==
    /\ Len(results) <= 1
    /\ pc = "done" => Len(results) = 1
    /\ Len(results) = 1 =>
          /\ pc = "done"
          /\ Range(results[1]) = emails_found
          /\ Len(results[1]) = Cardinality(emails_found)

\* C1 witness: a finished run that found two addresses, had a failed page
\* and was cancelled.
C1_Witness ==
    /\ pc = "done"
    /\ Len(results) = 1
    /\ Cardinality(emails_found) = 2
    /\ "error" \in StatusKinds
    /\ CancelRequested

\* C2: every run terminates with the result callback, provided the worker
\* keeps being scheduled and every fetch returns.
C2_Terminates == <>(pc = "done" /\ Len(results) = 1)

\* C2 witness: the run over the endless site has ended.
C2_Witness ==
    /\ pc = "done"
    /\ web = "endless"
    /\ ~CancelRequested
    /\ Len(fetched) = max_pages

\* C3: never more than max_pages fetches; on the endless site, without a
\* cancel request and without a failed page, the loop ends after exactly
\* max_pages pages.
C3_BudgetExact ==
    /\ Len(fetched) <= max_pages
    /\ pages_crawled <= max_pages
    /\ ( /\ LoopExited
         /\ web = "endless"
         /\ ~CancelRequested
         /\ StatusKinds \subseteq {"visiting", "found", "finished"} )
       => /\ pages_crawled = max_pages
          /\ Len(fetched) = max_pages
          /\ Cardinality(visited_urls) = max_pages

\* C3 witness: the loop over the endless site has just ended on the budget,
\* with an unvisited link still in the frontier.
C3_Witness ==
    /\ pc = "exit"
    /\ web = "endless"
    /\ ~CancelRequested
    /\ pages_crawled = max_pages
    /\ urls_to_visit # {}

Last(seq) == seq[Len(seq)]

\* The absolute URL _crawl_page computes for a parsable href of the page
\* it is working on.
Resolved(href) == urljoin(JoinBase(base_url, current_url), href)

\* C4: every URL in the frontier and every URL fetched has the seed's host
\* and the scheme http or https.
C4_DomainScope ==
    \A u \in urls_to_visit \cup FetchedUrls :
        /\ u.netloc = base_url.netloc
        /\ u.scheme \in {"http", "https"}

\* C4 witness: a page carrying a link to another host with the scheme and
\* path of an admitted link has been processed.
C4_Witness ==
    /\ pc = "count"
    /\ base_url.scheme = "https"
    /\ Url("https", "example.com", <<1>>) \in urls_to_visit
    /\ Url("https", "other.com", <<1>>) \notin urls_to_visit
    /\ \E i \in 1..Len(page.hrefs) :
          page.hrefs[i] = HrefAbs(Url("https", "other.com", <<1>>))

\* C5: no URL is fetched twice; a URL is in visited_urls from the moment it
\* is selected, before and after its fetch, whatever the fetch's outcome.
C5_NoRefetch ==
    /\ \A i, j \in 1..Len(fetched) : i < j => fetched[i][1] # fetched[j][1]
    /\ FetchedUrls \subseteq visited_urls
    /\ pc \in {"crawl", "fetch"} =>
          /\ current_url \in visited_urls
          /\ current_url \notin urls_to_visit

\* C5 witness: a later page links to a URL whose fetch failed earlier, and
\* that URL is not back in the frontier.
C5_Witness ==
    /\ pc = "count"
    /\ \E k \in 1..Len(statuses), i \in 1..Len(page.hrefs) :
          /\ statuses[k].kind = "error"
          /\ ~Unparsable(page.hrefs[i])
          /\ Resolved(page.hrefs[i]) = statuses[k].url
          /\ statuses[k].url \notin urls_to_visit

\* C6: after stop_scraping is called during iteration N no fetch of
\* iteration N+2 or later occurs, and a further call changes nothing.
C6_CancelBound ==
    /\ [](CancelRequested =>
             \A i \in 1..Len(fetched) : fetched[i][2] <= cancelIter + 1)
    /\ [][(CancelRequested /\ Cancel) => UNCHANGED vars]_vars

\* C6 witness: a run cancelled during its second iteration has ended with
\* links left in the frontier and budget to spare.
C6_Witness ==
    /\ pc = "done"
    /\ cancelIter = 2
    /\ iter = 2
    /\ Len(fetched) = 2
    /\ urls_to_visit # {}

\* C7: a failed fetch emits exactly one error line naming the page's URL,
\* leaves emails_found and urls_to_visit as they were, is still counted in
\* pages_crawled, and the loop goes on with the next frontier entry.
C7_FailedPage ==
    /\ [][FetchFail =>
            /\ Len(statuses') = Len(statuses) + 1
            /\ Last(statuses').kind = "error"
            /\ Last(statuses').url = current_url
            /\ Last(statuses').text \in RequestErrors
            /\ UNCHANGED <<emails_found, urls_to_visit>>
            /\ pc' = "count"]_vars
    /\ [][(pc = "count" /\ pc' # pc) =>
            /\ pages_crawled' = pages_crawled + 1
            /\ UNCHANGED <<emails_found, urls_to_visit, statuses>>
            /\ pc' = "sleep"]_vars
    /\ [][( /\ pc \in {"sleep", "loop"}
            /\ pc' # pc
            /\ statuses # <<>>
            /\ Last(statuses).kind = "error"
            /\ urls_to_visit # {}
            /\ pages_crawled < max_pages
            /\ is_scraping ) => pc' \in {"loop", "body"}]_vars

\* C7 witness: the page after a failed page is being visited.
C7_Witness ==
    /\ pc = "fetch"
    /\ Len(statuses) >= 2
    /\ statuses[Len(statuses) - 1].kind = "error"
    /\ statuses[Len(statuses) - 1].url # current_url
    /\ Last(statuses) = StatusVisiting(current_url)

\* C8: the loop is left only with an empty frontier, a spent budget or a
\* cancel request.
C8_ExitReasons ==
    LoopExited =>
        \/ urls_to_visit = {}
        \/ pages_crawled = max_pages
        \/ CancelRequested

\* C8 witness: a run with a failed fetch and an extraction error ran on
\* until the frontier was empty.
C8_Witness ==
    /\ pc = "exit"
    /\ {"error", "unexpected"} \subseteq StatusKinds
    /\ urls_to_visit = {}
    /\ ~CancelRequested
    /\ pages_crawled = 3

\* C9: "Found Email" is emitted at most once per address in a run, and
\* emails_found holds exactly the addresses so announced.
C9_FoundOnce ==
    /\ \A i, j \in 1..Len(statuses) :
          (i < j /\ statuses[i].kind = "found" /\ statuses[j].kind = "found")
             => statuses[i].text # statuses[j].text
    /\ emails_found =
          { statuses[i].text : i \in { k \in 1..Len(statuses) :
                                          statuses[k].kind = "found" } }

\* C9 witness: a page whose text holds twice an address already found on
\* an earlier page has been processed.
C9_Witness ==
    /\ pc = "count"
    /\ Len(page.text) = 2
    /\ page.text[1] = page.text[2]
    /\ \E i, j \in 1..Len(statuses) :
          /\ i < j
          /\ statuses[i] = StatusFound(page.text[1])
          /\ statuses[j] = StatusVisiting(current_url)

\* C10, as claimed: an unparsable link on a page is rejected without any
\* error line, and every other admissible link of the page is admitted.
C10_MalformedSilentlyRejected ==
    (pc = "count" /\ \E i \in 1..Len(page.hrefs) : Unparsable(page.hrefs[i]))
       => /\ Last(statuses).kind \notin {"error", "unexpected"}
          /\ NoUrl \notin urls_to_visit
          /\ \A i \in 1..Len(page.hrefs) :
                ( /\ ~Unparsable(page.hrefs[i])
                  /\ is_valid_url(Resolved(page.hrefs[i]), domain,
                                  visited_urls) )
                   => Resolved(page.hrefs[i]) \in urls_to_visit

\* The index of the "Visiting" line of the page a status line belongs to:
\* the last "Visiting" line before it (0 when there is none).
RECURSIVE VisitingBefore(_)
VisitingBefore(i) ==
    IF i = 0 THEN 0
    ELSE IF statuses[i].kind = "visiting" THEN i
    ELSE VisitingBefore(i - 1)

\* C11: the "Visiting" line of a page precedes its "Found Email" and error
\* lines; "Scraping finished." is emitted once, after is_scraping is set
\* to False, is the last line and precedes the result callback.
C11_StatusOrder ==
    /\ \A i \in 1..Len(statuses) :
          /\ statuses[i].kind \in {"found", "error", "unexpected"}
                => VisitingBefore(i) > 0
          /\ statuses[i].kind = "error"
                => statuses[VisitingBefore(i)].url = statuses[i].url
          /\ statuses[i].kind = "finished"
                => /\ i = Len(statuses)
                   /\ ~is_scraping
                   /\ pc \in {"result", "done"}
    /\ pc \in {"result", "done"} => Last(statuses) = StatusFinished
    /\ pc \notin {"result", "done"} => "finished" \notin StatusKinds
    /\ results # <<>> => Last(statuses) = StatusFinished

\* C11 witness: a run that was never cancelled has announced a visit, an
\* address and an error, then "Scraping finished.", then the result.
C11_Witness ==
    /\ pc = "done"
    /\ ~CancelRequested
    /\ {"visiting", "found", "error", "finished"} \subseteq StatusKinds
    /\ Len(results) = 1

\* C12, as claimed: a seed without an http/https scheme gets the https://
\* prefix, a seed with an http or https scheme is used as typed; domain is
\* the netloc of the normalized seed and the frontier starts as that seed.
C12_SeedNormalized ==
    pc = "new" =>
        /\ base_url = IF ParseEntry(entry).scheme \in {"http", "https"}
                      THEN ParseEntry(entry)
                      ELSE Url("https", entry.netloc, entry.path)
        /\ domain = base_url.netloc
        /\ urls_to_visit = {base_url}

\* C13: once the loop has exited the running flag is false and stays
\* false; no request is issued and no status is emitted but the final
\* one, the sets are left alone, and the worker never re-enters the loop,
\* whatever stop_scraping calls follow.
C13_Terminal ==
    /\ [](pc \in {"finish", "result", "done"} => ~is_scraping)
    /\ [][LoopExited =>
             /\ LoopExited'
             /\ fetched' = fetched
             /\ \/ statuses' = statuses
                \/ pc = "finish" /\ statuses' = Append(statuses, StatusFinished)
             /\ <<emails_found, visited_urls, urls_to_visit>>' =
                   <<emails_found, visited_urls, urls_to_visit>>
             /\ pc \in {"finish", "result", "done"} => ~is_scraping']_vars

C13_Witness ==
    /\ pc = "done"
    /\ CancelRequested
    /\ cancelIter = iter
    /\ ~is_scraping
    /\ Len(fetched) >= 2
    /\ urls_to_visit # {}

C15_Disjoint ==
    /\ [](urls_to_visit \cap visited_urls = {})
    /\ [][/\ (urls_to_visit' \ urls_to_visit) \cap visited_urls = {}
          /\ pc = "body" => pc' \in {"body", "crawl"}]_vars

C15_Witness ==
    /\ pc = "count"
    /\ Len(fetched) >= 2
    /\ \E i \in 1..Len(page.hrefs) :
          /\ ~Unparsable(page.hrefs[i])
          /\ Resolved(page.hrefs[i]) \in visited_urls \ {current_url}
          /\ Resolved(page.hrefs[i]).netloc = domain
          /\ Resolved(page.hrefs[i]) \notin urls_to_visit

\* The addresses of the "Found Email" status lines emitted so far.
FoundTexts ==
    { statuses[i].text : i \in { j \in 1..Len(statuses) :
                                    statuses[j].kind = "found" } }

\* C16: no step removes an address from emails_found; the set is at all
\* times the set of addresses a "Found Email" status was emitted for, and
\* the list handed to the completion callback holds exactly those.
C16_EmailsGrow ==
    /\ [][emails_found \subseteq emails_found']_vars
    /\ [](emails_found = FoundTexts)
    /\ [](\A k \in 1..Len(results) : Range(results[k]) = FoundTexts)

C16_Witness ==
    /\ Len(results) = 1
    /\ Range(results[1]) = {"a@b.com", "A@B.COM"}
    /\ \E i, j, k \in 1..Len(statuses) :
          /\ i < j /\ j < k
          /\ statuses[i].kind = "found"
          /\ statuses[j].kind = "visiting"
          /\ statuses[k].kind = "found"

\* The positions of hrefs the link loop gets to: those before the first
\* href urljoin raises on.
LinksReached(hrefs) ==
    { i \in 1..Len(hrefs) : \A j \in 1..i : ~Unparsable(hrefs[j]) }

\* C17: admitting is idempotent: after a page the frontier is the one
\* before it together with the set of valid link targets of the page,
\* however often the page repeats a link and whether or not the target
\* was in the frontier already.
C17_AdmitOnce ==
    [][(pc = "fetch" /\ page' # NoPage) =>
          urls_to_visit' = urls_to_visit \cup
              { u \in { urljoin(JoinBase(base_url, current_url), page'.hrefs[i]) :
                           i \in LinksReached(page'.hrefs) } :
                   is_valid_url(u, domain, visited_urls) }]_vars

C17_Witness ==
    /\ pc = "count"
    /\ page.hrefs = <<HrefRel(1), HrefRel(1)>>
    /\ urls_to_visit = {Resolved(HrefRel(1))}
    /\ visited_urls = {base_url}

\* C18: every page visited, fetched well or not, is followed by one
\* time.sleep(1) before the loop goes on: the sleeps returned are as many
\* as the requests issued, less the one of the page still being worked
\* on, so exactly one sleep lies between two consecutive requests.
C18_OneDelayPerPage ==
    sleeps = Len(fetched) - (IF pc \in {"fetch", "count", "sleep"} THEN 1 ELSE 0)

C18_Witness ==
    /\ pc = "fetch"
    /\ Len(fetched) = 3
    /\ sleeps = 2
    /\ "error" \in StatusKinds

\* C19: when stop_scraping is called before the loop of start_scraping is
\* first tested, the loop body never runs and no request is issued; the
\* run still emits "Scraping finished." and calls the completion callback,
\* with an empty list; and no step of the program sets the flag back to
\* true.
C19_CancelBeforeStart ==
    /\ [](cancelIter = 0 =>
             /\ iter = 0
             /\ fetched = <<>>
             /\ statuses \in {<<>>, <<StatusFinished>>}
             /\ pc \in {"new", "loop", "exit", "finish", "result", "done"}
             /\ pc = "done" => statuses = <<StatusFinished>> /\ results = << <<>> >>)
    /\ (cancelIter = 0) ~> (pc = "done" /\ results = << <<>> >>)
    /\ [][~is_scraping => ~is_scraping']_vars

C19_Witness ==
    /\ cancelIter = 0
    /\ pc = "done"
    /\ results = << <<>> >>
    /\ statuses = <<StatusFinished>>
    /\ visited_urls = {}

\* C20: a run that leaves the loop without a stop request and below the
\* page budget has emptied the frontier, and every URL ever admitted, the
\* seed included, is in visited_urls and was requested exactly once.
C20_Complete ==
    (LoopExited /\ ~CancelRequested /\ pages_crawled < max_pages) =>
        /\ urls_to_visit = {}
        /\ admitted \subseteq visited_urls
        /\ admitted = FetchedUrls
        /\ Len(fetched) = Cardinality(admitted)

C20_Witness ==
    /\ pc = "done"
    /\ ~CancelRequested
    /\ pages_crawled < max_pages
    /\ Cardinality(admitted) = 3
    /\ base_url \in admitted
    /\ Len(fetched) = 3

====
